---- MODULE Spec2Model ----
(***************************************************************************)
(* The boundary of the haven manager (manager/api/api.ts): the request     *)
(* pipeline that wraps every Haven service method, the bootstrap handler,  *)
(* the worker lifecycle handlers (pause, resume, delete), the listing and  *)
(* create handlers and the chat-completion relay, running as concurrent    *)
(* requests against one Compute Fleet and one process-wide setup flag.     *)
(***************************************************************************)
EXTENDS Integers, Sequences, FiniteSets, TLC

\* ------------------------------------------------------------------ bounds
Procs == {1, 2}          \* request slots that can be in flight concurrently
MaxCalls == 2            \* total number of requests invoked in one behaviour
MaxFrags == 2            \* fragments one worker stream emits at most

\* --------------------------------------------------------------- vocabulary
Names == {"w1", "w2"}    \* worker names a request or the fleet can carry
KeyFiles == {"none", "good", "bad"}  \* req.keyFile: undefined, usable, unusable

Ops == {"setup", "chatCompletion", "listModels", "listWorkers",
        "createInferenceWorker", "pauseInferenceWorker",
        "resumeInferenceWorker", "deleteInferenceWorker"}

LifecycleOps == {"pauseInferenceWorker", "resumeInferenceWorker",
                 "deleteInferenceWorker"}
NamedOps == LifecycleOps \cup {"chatCompletion", "createInferenceWorker"}

\* The failure kinds of the boundary; "Raw" is a failure that is no
\* ConnectError of the taxonomy (a plain Error, or whatever an upstream threw).
Taxonomy == {"InvalidInput", "Unauthenticated", "FailedPrecondition",
             "NotFound", "UpstreamUnavailable", "Internal"}

\* The fleet's record of one name: absent, or an instance with a status and
\* possibly an attached address. An instance has its address from the moment
\* it runs until it stops.
Absent == [exists |-> FALSE, status |-> "", ip |-> FALSE]
Instance(s, a) == [exists |-> TRUE, status |-> s, ip |-> a]
FleetRecords == {Absent, Instance("PROVISIONING", FALSE),
                 Instance("RUNNING", TRUE), Instance("TERMINATED", FALSE)}

\* The fleets a behaviour starts from: "w1" in any state, "w2" absent or up.
InitialFleets ==
    {f \in [Names -> FleetRecords] : f["w2"] \in {Absent, Instance("RUNNING", TRUE)}}

\* The value of the local `worker` when find() matched nothing.
Undefined == [name |-> "", status |-> "", ip |-> FALSE]

\* The value of `listed` while no listing has been returned to the request.
Unlisted == [name |-> "?", status |-> "", ip |-> FALSE]

VARIABLES
    setupDone,   \* config.setupDone
    fleet,       \* the Compute Fleet API's authoritative records, by name
    pc,          \* where each request is
    req,         \* each request's operation and input
    stages,      \* the pipeline stages each request has entered, outermost first
    worker,      \* the handler's local `worker` (the snapshot find() returned)
    calls,       \* the outgoing calls each request has issued, in order
    notify,      \* outcome of the request's shutdown notification
    fleetAns,    \* answer of the fleet to the request's mutating call
    listed,      \* what the listing returned to the request held for its name
    delivered,   \* fragments relayed to the caller of a chatCompletion
    emitted,     \* fragments the worker's stream has produced for the request
    cancelled,   \* the caller has cancelled the request
    result,      \* what the caller got: "none", "ok" or a failure kind
    returned,    \* the workerName of the InferenceWorker a request returned
    invoked      \* number of requests invoked so far

vars == <<setupDone, fleet, pc, req, stages, worker, calls, notify, fleetAns,
          listed, delivered, emitted, cancelled, result, returned, invoked>>

NoReq == [op |-> "none", name |-> "", valid |-> TRUE, authed |-> TRUE,
          keyFile |-> "none"]

\* The worker names a request to method op carries: lifecycle requests range
\* over every name, chatCompletion and createInferenceWorker over one each.
RequestNames(op) ==
    CASE op \in LifecycleOps -> Names
      [] op = "chatCompletion" -> {"w2"}
      [] op = "createInferenceWorker" -> {"w1"}
      [] OTHER -> {""}

RepresentativeName(op) == CHOOSE n \in RequestNames(op) : TRUE

\* The requests a caller can send to method op. A request that is malformed
\* or unauthenticated carries one representative name and keyFile: no wrapper
\* looks at those fields.
Requests(op) ==
    {r \in [op : {op},
            name : RequestNames(op),
            valid : BOOLEAN,
            authed : BOOLEAN,
            keyFile : IF op = "setup" THEN KeyFiles ELSE {"none"}] :
        \/ r.valid /\ r.authed
        \/ /\ r.name = RepresentativeName(op)
           /\ r.keyFile = (IF op = "setup" THEN "good" ELSE "none")}

\* The k-th fragment the worker's stream emits.
Fragment(k) == k

Call(k, t) == [kind |-> k, target |-> t]

RangeOf(s) == {s[i] : i \in 1..Len(s)}

\* ---------------------------------------------------------------- pipeline
\* Mutant: listWorkers registered without the readiness gate.
PipelineNoGate(op) ==
    CASE op = "setup" -> <<"catchErrors", "validate", "auth", "handler">>
      [] op = "chatCompletion" -> <<"auth", "enforceSetup", "handler">>
      [] op = "listWorkers" -> <<"catchErrors", "validate", "auth", "handler">>
      [] OTHER -> <<"catchErrors", "validate", "auth", "enforceSetup", "handler">>

\* Mutant: auth wrapped around validate instead of inside it.
PipelineAuthFirst(op) ==
    CASE op = "setup" -> <<"catchErrors", "auth", "validate", "handler">>
      [] op = "chatCompletion" -> <<"auth", "enforceSetup", "handler">>
      [] OTHER -> <<"catchErrors", "auth", "validate", "enforceSetup", "handler">>

\* The wrappers of each service method, outermost first, ending in the handler.
Pipeline(op) ==
    CASE op = "setup" -> <<"catchErrors", "validate", "auth", "handler">>
      [] op = "chatCompletion" -> <<"auth", "enforceSetup", "handler">>
      [] OTHER -> <<"catchErrors", "validate", "auth", "enforceSetup", "handler">>

\* validate(v, h): rejects malformed input before calling h.
validate(r) == IF r.valid THEN "pass" ELSE "InvalidInput"

\* auth(h): rejects an unauthenticated caller before calling h.
auth(r) == IF r.authed THEN "pass" ELSE "Unauthenticated"

\* enforceSetup(h): rejects while config.setupDone is false.
enforceSetup(done) == IF done THEN "pass" ELSE "FailedPrecondition"

\* What stage s does with request r when config.setupDone = done.
StageVerdict(s, r, done) ==
    CASE s = "validate" -> validate(r)
      [] s = "auth" -> auth(r)
      [] s = "enforceSetup" -> enforceSetup(done)
      [] OTHER -> "pass"

\* The stages a request enters, outermost first: each wrapper calls the next
\* one unless it rejects. The wrappers run synchronously, in one turn of the
\* event loop, up to the handler's first await.
RECURSIVE EnteredFrom(_, _, _, _)
EnteredFrom(pl, i, r, done) ==
    IF i > Len(pl) THEN <<>>
    ELSE IF StageVerdict(pl[i], r, done) # "pass" THEN <<pl[i]>>
    ELSE <<pl[i]>> \o EnteredFrom(pl, i + 1, r, done)

Entered(r, done) == EnteredFrom(Pipeline(r.op), 1, r, done)

\* The verdict of the innermost stage entered: "pass" when it is the handler.
Verdict(r, done) ==
    LET st == Entered(r, done) IN StageVerdict(st[Len(st)], r, done)

\* catchErrors: a taxonomy failure passes, anything else becomes Internal.
catchErrors(kind) == IF kind \in Taxonomy THEN kind ELSE "Internal"

\* What the caller sees of a failure thrown under the wrappers in st.
Surface(st, kind) ==
    IF "catchErrors" \in RangeOf(st) THEN catchErrors(kind) ELSE kind

Throw(p, kind) ==
    /\ result' = [result EXCEPT ![p] = Surface(stages'[p], kind)]
    /\ pc' = [pc EXCEPT ![p] = "done"]
    /\ UNCHANGED returned

\* return new InferenceWorker({workerName: name})
SucceedWith(p, name) ==
    /\ result' = [result EXCEPT ![p] = "ok"]
    /\ returned' = [returned EXCEPT ![p] = name]
    /\ pc' = [pc EXCEPT ![p] = "done"]

\* A return that carries no worker name.
Succeed(p) == SucceedWith(p, "")

Await(p, what) ==
    /\ pc' = [pc EXCEPT ![p] = what]
    /\ UNCHANGED <<result, returned>>

Issue(p, k, t) == calls' = [calls EXCEPT ![p] = Append(@, Call(k, t))]

Init ==
    /\ setupDone \in BOOLEAN
    /\ fleet \in InitialFleets
    /\ pc = [p \in Procs |-> "idle"]
    /\ req = [p \in Procs |-> NoReq]
    /\ stages = [p \in Procs |-> <<>>]
    /\ worker = [p \in Procs |-> Undefined]
    /\ calls = [p \in Procs |-> <<>>]
    /\ notify = [p \in Procs |-> "none"]
    /\ fleetAns = [p \in Procs |-> "none"]
    /\ listed = [p \in Procs |-> Unlisted]
    /\ delivered = [p \in Procs |-> <<>>]
    /\ emitted = [p \in Procs |-> <<>>]
    /\ cancelled = [p \in Procs |-> FALSE]
    /\ result = [p \in Procs |-> "none"]
    /\ returned = [p \in Procs |-> ""]
    /\ invoked = 0

\* A caller invokes a service method with request r: the router runs the
\* method's wrappers.
Begin(p, r) ==
    /\ pc[p] = "idle"
    /\ invoked < MaxCalls
    /\ invoked' = invoked + 1
    /\ req' = [req EXCEPT ![p] = r]
    /\ stages' = [stages EXCEPT ![p] = Entered(r, setupDone)]
    /\ UNCHANGED <<worker, notify, fleetAns, listed, delivered, emitted,
                   cancelled>>

\* The request reaches the handler of its method.
Reaches(p, r) ==
    /\ Begin(p, r)
    /\ Verdict(r, setupDone) = "pass"

\* A wrapper rejects the request: the handler is never called.
Rejected(p) ==
    \E op \in Ops : \E r \in Requests(op) :
        /\ Begin(p, r)
        /\ Verdict(r, setupDone) # "pass"
        /\ Throw(p, Verdict(r, setupDone))
        /\ UNCHANGED calls
        /\ UNCHANGED <<setupDone, fleet>>

\* The response has been handed to the caller; the slot is free again.
Return(p) ==
    /\ pc[p] = "done"
    /\ pc' = [pc EXCEPT ![p] = "idle"]
    /\ req' = [req EXCEPT ![p] = NoReq]
    /\ stages' = [stages EXCEPT ![p] = <<>>]
    /\ worker' = [worker EXCEPT ![p] = Undefined]
    /\ calls' = [calls EXCEPT ![p] = <<>>]
    /\ notify' = [notify EXCEPT ![p] = "none"]
    /\ fleetAns' = [fleetAns EXCEPT ![p] = "none"]
    /\ listed' = [listed EXCEPT ![p] = Unlisted]
    /\ delivered' = [delivered EXCEPT ![p] = <<>>]
    /\ emitted' = [emitted EXCEPT ![p] = <<>>]
    /\ cancelled' = [cancelled EXCEPT ![p] = FALSE]
    /\ result' = [result EXCEPT ![p] = "none"]
    /\ returned' = [returned EXCEPT ![p] = ""]
    /\ UNCHANGED <<setupDone, fleet, invoked>>

\* A failure thrown by a pending call of request p (stages unchanged).
Fail(p, kind) ==
    /\ result' = [result EXCEPT ![p] = Surface(stages[p], kind)]
    /\ pc' = [pc EXCEPT ![p] = "done"]
    /\ UNCHANGED returned

\* ------------------------------------------------------------------- setup
\* Mutant: the keyFile is looked at before config.setupDone, so a call that
\* carries a keyFile runs the setup again.
setupHandlerKeyFirst(done, file) ==
    IF file # "none" THEN "setupController"
    ELSE IF done THEN "return"
    ELSE "FailedPrecondition"

\* Mutant: a call without a keyFile is passed on to setupController too.
setupHandlerNoProbe(done, file) ==
    IF done THEN "return" ELSE "setupController"

\* What setupHandler does, synchronously, with keyFile `file` when
\* config.setupDone = done: return, throw, or call setupController.
setupHandler(done, file) ==
    IF done THEN "return"
    ELSE IF file = "none" THEN "FailedPrecondition"
    ELSE "setupController"

SetupHandler(p) ==
    \E r \in Requests("setup") :
        /\ Reaches(p, r)
        /\ LET act == setupHandler(setupDone, r.keyFile) IN
              CASE act = "return" -> Succeed(p) /\ UNCHANGED calls
                [] act = "setupController" ->
                       /\ Await(p, "setupController")
                       /\ calls' = [calls EXCEPT ![p] =
                                       <<Call("setupController", "")>>]
                [] OTHER -> Throw(p, act) /\ UNCHANGED calls
        /\ UNCHANGED <<setupDone, fleet>>

\* Mutant: a setup that fails clears config.setupDone.
SetupControllerReturnResets(p) ==
    /\ pc[p] = "setupController"
    /\ IF req[p].keyFile = "good"
       THEN setupDone' = TRUE /\ Succeed(p)
       ELSE Fail(p, "Raw") /\ setupDone' = FALSE
    /\ UNCHANGED <<fleet, req, stages, worker, calls, notify, fleetAns,
                   listed, delivered, emitted, cancelled, invoked>>

\* setupController(file) settles: a usable key completes the setup and sets
\* config.setupDone; an unusable one makes it throw.
SetupControllerReturn(p) ==
    /\ pc[p] = "setupController"
    /\ IF req[p].keyFile = "good"
       THEN setupDone' = TRUE /\ Succeed(p)
       ELSE Fail(p, "Raw") /\ UNCHANGED setupDone
    /\ UNCHANGED <<fleet, req, stages, worker, calls, notify, fleetAns,
                   listed, delivered, emitted, cancelled, invoked>>

\* ----------------------------------------------------------- chatCompletion
ChatCompletion(p) ==
    \E r \in Requests("chatCompletion") :
        /\ Reaches(p, r)
        /\ Await(p, "generateController")
        /\ UNCHANGED calls
        /\ UNCHANGED <<setupDone, fleet>>

\* The fleet's listing: one record per existing instance.
Listing == {[name |-> n, status |-> fleet[n].status, ip |-> fleet[n].ip] :
               n \in {m \in Names : fleet[m].exists}}

\* What the fleet's listing holds for name n: its record, or nothing.
Entry(n) ==
    IF fleet[n].exists
    THEN [name |-> n, status |-> fleet[n].status, ip |-> fleet[n].ip]
    ELSE Undefined

\* Mutant: the first worker of the listing is taken, whatever its name.
FindAny(workers, workerName) ==
    IF workers = {} THEN [name |-> "", status |-> "", ip |-> FALSE]
    ELSE CHOOSE w \in workers : TRUE

\* workers.find((worker) => worker.name === workerName)
Find(workers, workerName) ==
    IF \E w \in workers : w.name = workerName
    THEN CHOOSE w \in workers : w.name = workerName
    ELSE Undefined

\* getWorkerIP(worker): the worker's address, or nothing.
getWorkerIP(w) == w.ip

\* generateController(workerName, messages) settles: it looks the worker up,
\* resolves its address and opens the stream, or throws.
GenerateControllerReturn(p) ==
    /\ pc[p] = "generateController"
    /\ LET w == Find(Listing, req[p].name) IN
         \/ /\ w = Undefined
            /\ Fail(p, "NotFound")
            /\ Issue(p, "list", "")
         \/ /\ w # Undefined /\ ~getWorkerIP(w)
            /\ Fail(p, "FailedPrecondition")
            /\ Issue(p, "list", "")
         \/ /\ w # Undefined /\ getWorkerIP(w)
            /\ Await(p, "streaming")
            /\ calls' = [calls EXCEPT ![p] =
                            @ \o <<Call("list", ""), Call("stream", w.name)>>]
         \/ /\ Fail(p, "Raw")
            /\ UNCHANGED calls
    /\ UNCHANGED <<setupDone, fleet, req, stages, worker, notify, fleetAns,
                   listed, delivered, emitted, cancelled, invoked>>

\* new ChatCompletionResponse({text: data.text})
ChatCompletionResponse(data) == [text |-> data.text]

\* Mutant: the newest response is put in front of those already yielded.
RelayedNewestFirst(d, data) == <<ChatCompletionResponse(data)>> \o d

\* yield: the response follows those the caller has already been handed.
Relayed(d, data) == Append(d, ChatCompletionResponse(data))

\* The for-await loop is left by a return: the loop closes the worker's
\* stream and the generator completes without an error.
CloseAndReturn(p) ==
    /\ Issue(p, "close", req[p].name)
    /\ Succeed(p)

\* for await (const data of stream) yield ...: the worker's stream produces
\* its next fragment and the generator yields the response to the pending
\* next(). A return() queued meanwhile is served right after the yield.
StreamData(p) ==
    /\ pc[p] = "streaming"
    /\ Len(emitted[p]) < MaxFrags
    /\ LET data == [text |-> Fragment(Len(emitted[p]) + 1)] IN
          /\ emitted' = [emitted EXCEPT ![p] = Append(@, data)]
          /\ delivered' = [delivered EXCEPT ![p] = Relayed(@, data)]
    /\ IF cancelled[p]
       THEN CloseAndReturn(p)
       ELSE Await(p, "yield") /\ UNCHANGED calls
    /\ UNCHANGED <<setupDone, fleet, req, stages, worker, notify, fleetAns,
                   listed, cancelled, invoked>>

\* The caller's side asks for the next response: the generator resumes from
\* its yield and awaits the stream again.
StreamPull(p) ==
    /\ pc[p] = "yield"
    /\ Await(p, "streaming")
    /\ UNCHANGED <<setupDone, fleet, req, stages, worker, calls, notify,
                   fleetAns, listed, delivered, emitted, cancelled, invoked>>

\* The caller cancels a session whose stream is open: return() is called on
\* the generator. A generator suspended at its yield leaves the loop at once;
\* one that is awaiting the stream's next fragment only queues the request.
Cancel(p) ==
    /\ pc[p] \in {"streaming", "yield"}
    /\ ~cancelled[p]
    /\ cancelled' = [cancelled EXCEPT ![p] = TRUE]
    /\ IF pc[p] = "yield"
       THEN CloseAndReturn(p)
       ELSE UNCHANGED <<pc, result, returned, calls>>
    /\ UNCHANGED <<setupDone, fleet, req, stages, worker, notify, fleetAns,
                   listed, delivered, emitted, invoked>>

\* The worker's stream completes.
StreamEnd(p) ==
    /\ pc[p] = "streaming"
    /\ Succeed(p)
    /\ UNCHANGED <<setupDone, fleet, req, stages, worker, calls, notify,
                   fleetAns, listed, delivered, emitted, cancelled, invoked>>

\* The worker's stream fails: the iteration throws what the stream threw.
StreamError(p) ==
    /\ pc[p] = "streaming"
    /\ Fail(p, "Raw")
    /\ UNCHANGED <<setupDone, fleet, req, stages, worker, calls, notify,
                   fleetAns, listed, delivered, emitted, cancelled, invoked>>

\* ---------------------------------------------------------------- listings
ListModels(p) ==
    \E r \in Requests("listModels") :
        /\ Reaches(p, r)
        /\ Await(p, "getAllModels")
        /\ UNCHANGED calls
        /\ UNCHANGED <<setupDone, fleet>>

\* getAllModels() settles; its failure is rethrown as Internal.
GetAllModelsReturn(p) ==
    /\ pc[p] = "getAllModels"
    /\ \/ Succeed(p)
       \/ Fail(p, "Internal")
    /\ UNCHANGED <<setupDone, fleet, req, stages, worker, calls, notify,
                   fleetAns, listed, delivered, emitted, cancelled, invoked>>

ListWorkers(p) ==
    \E r \in Requests("listWorkers") :
        /\ Reaches(p, r)
        /\ Await(p, "listWorkersController")
        /\ UNCHANGED calls
        /\ UNCHANGED <<setupDone, fleet>>

\* listWorkersController() settles with the listing, or throws.
ListWorkersControllerReturn(p) ==
    /\ pc[p] = "listWorkersController"
    /\ \/ Succeed(p) /\ Issue(p, "list", "")
       \/ Fail(p, "Raw") /\ UNCHANGED calls
    /\ UNCHANGED <<setupDone, fleet, req, stages, worker, notify, fleetAns,
                   listed, delivered, emitted, cancelled, invoked>>

\* ------------------------------------------------------------------ create
CreateInferenceWorker(p) ==
    \E r \in Requests("createInferenceWorker") :
        /\ Reaches(p, r)
        /\ Await(p, "createInferenceWorkerController")
        /\ UNCHANGED calls
        /\ UNCHANGED <<setupDone, fleet>>

\* createInferenceWorkerController(...) settles: the fleet holds a new
\* instance under the name, or the controller throws.
CreateInferenceWorkerControllerReturn(p) ==
    /\ pc[p] = "createInferenceWorkerController"
    /\ \/ /\ ~fleet[req[p].name].exists
          /\ fleet' = [fleet EXCEPT ![req[p].name] =
                          Instance("PROVISIONING", FALSE)]
          /\ Issue(p, "create", req[p].name)
          /\ SucceedWith(p, req[p].name)
       \/ /\ Fail(p, "Raw")
          /\ UNCHANGED <<fleet, calls>>
    /\ UNCHANGED <<setupDone, req, stages, worker, notify, fleetAns,
                   listed,
                   delivered, emitted, cancelled, invoked>>

\* --------------------------------------------------------------- lifecycle
\* The fleet call of each lifecycle method.
FleetCall(op) ==
    CASE op = "pauseInferenceWorker" -> "pause"
      [] op = "resumeInferenceWorker" -> "start"
      [] op = "deleteInferenceWorker" -> "remove"

\* pauseWorker, resumeWorker and deleteWorker all start with
\* await createComputeAPI().
LifecycleEnter(p, op) ==
    \E r \in Requests(op) :
        /\ Reaches(p, r)
        /\ Await(p, "createComputeAPI")
        /\ UNCHANGED calls
        /\ UNCHANGED <<setupDone, fleet>>

PauseWorker(p) == LifecycleEnter(p, "pauseInferenceWorker")
ResumeWorker(p) == LifecycleEnter(p, "resumeInferenceWorker")
DeleteWorker(p) == LifecycleEnter(p, "deleteInferenceWorker")

\* createComputeAPI() settles: the handler goes on to await list(api), or the
\* failure leaves the handler.
CreateComputeAPIReturn(p) ==
    /\ pc[p] = "createComputeAPI"
    /\ \/ Await(p, "list") /\ Issue(p, "list", "")
       \/ Fail(p, "Raw") /\ UNCHANGED calls
    /\ UNCHANGED <<setupDone, fleet, req, stages, worker, notify, fleetAns,
                   listed, delivered, emitted, cancelled, invoked>>

\* Mutant: the existence check is missing.
WorkerMissingNever(w) == FALSE

\* if (!worker || !worker.name)
WorkerMissing(w) == w = Undefined \/ w.name = ""

\* Mutant: only a running worker is refused.
NotPausedOnlyRunning(w) == w.status = "RUNNING"

\* if (worker.status !== "TERMINATED")
NotPaused(w) == w.status # "TERMINATED"

\* Mutant: a worker without an address is refused instead of stopped.
AfterLookupStopNeedsAddress(w) ==
    IF w = Undefined \/ w.name = "" THEN "NotFound"
    ELSE IF w.ip THEN "shutdown"
    ELSE "FailedPrecondition"

\* Mutant: the fleet call is issued without sending the notification first.
AfterLookupStopSkipsNotify(w) ==
    IF w = Undefined \/ w.name = "" THEN "NotFound" ELSE "fleetCall"

\* What pauseWorker and deleteWorker do with the worker found, up to their
\* next await: throw NotFound, send the shutdown notification, or go straight
\* to the fleet call.
AfterLookupStop(w) ==
    IF WorkerMissing(w) THEN "NotFound"
    ELSE IF getWorkerIP(w) THEN "shutdown"
    ELSE "fleetCall"

\* Mutant: the status of the worker found is not looked at.
AfterLookupResumeUnchecked(w) ==
    IF w = Undefined \/ w.name = "" THEN "NotFound" ELSE "fleetCall"

\* What resumeWorker does with the worker found, up to its next await.
AfterLookupResume(w) ==
    IF WorkerMissing(w) THEN "NotFound"
    ELSE IF NotPaused(w) THEN "FailedPrecondition"
    ELSE "fleetCall"

AfterLookup(op, w) ==
    IF op = "resumeInferenceWorker" THEN AfterLookupResume(w)
    ELSE AfterLookupStop(w)

\* list(api) answers with the fleet's current listing; the handler finds its
\* worker and runs to its next await.
ListReturn(p) ==
    /\ pc[p] = "list"
    /\ LET w == Find(Listing, req[p].name)
           act == AfterLookup(req[p].op, w)
       IN  /\ worker' = [worker EXCEPT ![p] = w]
           /\ listed' = [listed EXCEPT ![p] = Entry(req[p].name)]
           /\ CASE act = "shutdown" ->
                       /\ Await(p, "shutdown")
                       /\ Issue(p, "shutdown", w.name)
                       /\ UNCHANGED notify
                [] act = "fleetCall" ->
                       /\ Await(p, "fleetCall")
                       /\ Issue(p, FleetCall(req[p].op), w.name)
                       /\ notify' = [notify EXCEPT ![p] = "skipped"]
                [] OTHER ->
                       /\ Fail(p, act)
                       /\ UNCHANGED <<calls, notify>>
    /\ UNCHANGED <<setupDone, fleet, req, stages, fleetAns, delivered, emitted,
                   cancelled, invoked>>

\* list(api) fails.
ListFail(p) ==
    /\ pc[p] = "list"
    /\ Fail(p, "Raw")
    /\ UNCHANGED <<setupDone, fleet, req, stages, worker, calls, notify,
                   fleetAns, listed, delivered, emitted, cancelled, invoked>>

\* Mutant: the notification's failure is not caught.
ShutdownCatchMissing(outcome) ==
    IF outcome = "failed" THEN "Internal" ELSE "fleetCall"

\* .catch((e) => console.error(...)) on the shutdown notification: what the
\* handler does once the notification has settled with `outcome`.
ShutdownCatch(outcome) == "fleetCall"

\* The worker answers the shutdown notification, or the call to it fails;
\* either way the handler goes on to the fleet call.
ShutdownSettle(p, outcome) ==
    /\ pc[p] = "shutdown"
    /\ notify' = [notify EXCEPT ![p] = outcome]
    /\ IF ShutdownCatch(outcome) = "fleetCall"
       THEN /\ Await(p, "fleetCall")
            /\ Issue(p, FleetCall(req[p].op), worker[p].name)
       ELSE /\ Fail(p, ShutdownCatch(outcome))
            /\ UNCHANGED calls
    /\ UNCHANGED <<setupDone, fleet, req, stages, worker, fleetAns,
                   listed,
                   delivered, emitted, cancelled, invoked>>

ShutdownResolve(p) == ShutdownSettle(p, "ok")
ShutdownReject(p) == ShutdownSettle(p, "failed")

\* The fleet's record of an instance after a successful call on it.
Applied(call, rec) ==
    CASE call = "pause" -> Instance("TERMINATED", FALSE)
      [] call = "start" ->
             IF rec.status = "TERMINATED" THEN Instance("PROVISIONING", FALSE)
             ELSE rec
      [] call = "remove" -> Absent

\* Mutant: the fleet call's failure is only logged, like the notification's.
FleetCatchSwallows(answer) == "return"

\* .catch((e) => { throw new ConnectError(..., Code.Internal) }) on the fleet
\* call, then return new InferenceWorker(...).
FleetCatch(answer) == IF answer = "ok" THEN "return" ELSE "Internal"

\* The fleet carries out the call and answers.
FleetOk(p) ==
    /\ pc[p] = "fleetCall"
    /\ fleet[worker[p].name].exists
    /\ fleet' = [fleet EXCEPT ![worker[p].name] =
                    Applied(FleetCall(req[p].op), @)]
    /\ fleetAns' = [fleetAns EXCEPT ![p] = "ok"]
    /\ IF FleetCatch("ok") = "return" THEN SucceedWith(p, worker[p].name)
       ELSE Fail(p, FleetCatch("ok"))
    /\ UNCHANGED <<setupDone, req, stages, worker, calls, notify,
                   listed,
                   delivered, emitted, cancelled, invoked>>

\* The fleet refuses the call, or cannot be reached.
FleetFail(p) ==
    /\ pc[p] = "fleetCall"
    /\ fleetAns' = [fleetAns EXCEPT ![p] = "fail"]
    /\ IF FleetCatch("fail") = "return" THEN SucceedWith(p, worker[p].name)
       ELSE Fail(p, FleetCatch("fail"))
    /\ UNCHANGED <<setupDone, fleet, req, stages, worker, calls, notify,
                   listed, delivered, emitted, cancelled, invoked>>

\* ------------------------------------------------------------- environment
\* The fleet changes out of band: an instance comes up, or terminates by
\* itself.
EnvBoot(n) ==
    /\ fleet[n] = Instance("PROVISIONING", FALSE)
    /\ fleet' = [fleet EXCEPT ![n] = Instance("RUNNING", TRUE)]
    /\ UNCHANGED <<setupDone, pc, req, stages, worker, calls, notify,
                   fleetAns, listed, delivered, emitted, cancelled, result,
                   returned, invoked>>

EnvSelfTerminate(n) ==
    /\ fleet[n] = Instance("RUNNING", TRUE)
    /\ fleet' = [fleet EXCEPT ![n] = Instance("TERMINATED", FALSE)]
    /\ UNCHANGED <<setupDone, pc, req, stages, worker, calls, notify,
                   fleetAns, listed, delivered, emitted, cancelled, result,
                   returned, invoked>>

\* ---------------------------------------------------------- specification
\* The steps of request slot p that the manager's event loop or the fleet
\* takes by itself.
Step(p) ==
    \/ SetupControllerReturn(p)
    \/ GenerateControllerReturn(p)
    \/ StreamEnd(p)
    \/ StreamError(p)
    \/ GetAllModelsReturn(p)
    \/ ListWorkersControllerReturn(p)
    \/ CreateInferenceWorkerControllerReturn(p)
    \/ CreateComputeAPIReturn(p)
    \/ ListReturn(p)
    \/ ListFail(p)
    \/ FleetOk(p)
    \/ FleetFail(p)

Next ==
    \/ \E p \in Procs :
        \/ Rejected(p)
        \/ SetupHandler(p)
        \/ ChatCompletion(p)
        \/ ListModels(p)
        \/ ListWorkers(p)
        \/ CreateInferenceWorker(p)
        \/ PauseWorker(p)
        \/ ResumeWorker(p)
        \/ DeleteWorker(p)
        \/ StreamData(p)
        \/ StreamPull(p)
        \/ Cancel(p)
        \/ ShutdownResolve(p)
        \/ ShutdownReject(p)
        \/ Step(p)
        \/ Return(p)
    \/ \E n \in Names :
        \/ EnvBoot(n)
        \/ EnvSelfTerminate(n)

Spec == Init /\ [][Next]_vars

\* The manager's event loop runs every continuation that is ready and the
\* Compute Fleet API answers every call; a worker need not answer.
FairSpec == Spec /\ \A p \in Procs : WF_vars(Step(p))

\* ------------------------------------------------------------------ claims
Kinds(p) == {calls[p][i].kind : i \in 1..Len(calls[p])}

\* The calls of kind k request p has issued, as the set of their positions.
CallsOf(p, k) == {i \in 1..Len(calls[p]) : calls[p][i].kind = k}

InHandler(p) == "handler" \in RangeOf(stages[p])

StopOps == {"pauseInferenceWorker", "deleteInferenceWorker"}

\* The request has been given a listing that holds its worker.
ListedPresent(p) == listed[p] \notin {Unlisted, Undefined}

\* C1: a pause, resume or delete whose worker name is absent from the listing
\* the fleet returned fails with NotFound, and has issued no pause, start or
\* remove call and no shutdown notification.
C1_AbsentIsNotFound ==
    \A p \in Procs :
        (req[p].op \in LifecycleOps /\ listed[p] = Undefined) =>
            /\ pc[p] = "done"
            /\ result[p] = "NotFound"
            /\ Kinds(p) \cap {"pause", "start", "remove", "shutdown"} = {}
            /\ notify[p] = "none"
            /\ fleetAns[p] = "none"

C1_Witness ==
    \E p \in Procs :
        /\ req[p].op = "deleteInferenceWorker"
        /\ listed[p] = Undefined
        /\ result[p] = "NotFound"
        /\ fleet[req[p].name] = Absent

\* C2: a resume of an existing worker listed with a status other than
\* TERMINATED fails with FailedPrecondition and issues no start call; listed
\* as TERMINATED, it issues exactly one start call, for that worker.
C2_ResumeNeedsPaused ==
    \A p \in Procs :
        (req[p].op = "resumeInferenceWorker" /\ ListedPresent(p)) =>
            IF listed[p].status # "TERMINATED"
            THEN /\ pc[p] = "done"
                 /\ result[p] = "FailedPrecondition"
                 /\ CallsOf(p, "start") = {}
            ELSE /\ Cardinality(CallsOf(p, "start")) = 1
                 /\ \A i \in CallsOf(p, "start") :
                        calls[p][i].target = req[p].name

C2_Witness ==
    \E p, q \in Procs :
        /\ req[p].op = "resumeInferenceWorker"
        /\ ListedPresent(p)
        /\ listed[p].status = "PROVISIONING"
        /\ result[p] = "FailedPrecondition"
        /\ req[q].op = "resumeInferenceWorker"
        /\ ListedPresent(q)
        /\ listed[q].status = "TERMINATED"
        /\ Cardinality(CallsOf(q, "start")) = 1

\* C3: a pause or delete of an existing worker that has no resolved address
\* sends no shutdown notification, still issues its fleet call, and succeeds
\* whenever the fleet call succeeds.
C3_NoAddressStillStops ==
    \A p \in Procs :
        (req[p].op \in StopOps /\ ListedPresent(p) /\ ~listed[p].ip) =>
            /\ CallsOf(p, "shutdown") = {}
            /\ notify[p] = "skipped"
            /\ Cardinality(CallsOf(p, FleetCall(req[p].op))) = 1
            /\ \A i \in CallsOf(p, FleetCall(req[p].op)) :
                   calls[p][i].target = req[p].name
            /\ (fleetAns[p] = "ok" => pc[p] = "done" /\ result[p] = "ok")

C3_Witness ==
    \E p \in Procs :
        /\ req[p].op = "pauseInferenceWorker"
        /\ ListedPresent(p)
        /\ ~listed[p].ip
        /\ fleetAns[p] = "ok"
        /\ result[p] = "ok"

\* C4: for a pause or delete of an existing worker with a resolved address,
\* once the shutdown notification has settled, failed or not, the fleet call
\* has been issued, and the result is decided by the fleet's answer alone:
\* success when the fleet call succeeded, Internal when it failed.
C4_NotifyFailureIsIgnored ==
    \A p \in Procs :
        (req[p].op \in StopOps /\ notify[p] \in {"ok", "failed"}) =>
            /\ Cardinality(CallsOf(p, FleetCall(req[p].op))) = 1
            /\ pc[p] \in {"fleetCall", "done"}
            /\ (pc[p] = "done" =>
                  /\ fleetAns[p] \in {"ok", "fail"}
                  /\ result[p] = IF fleetAns[p] = "ok" THEN "ok" ELSE "Internal")

C4_Witness ==
    \E p, q \in Procs :
        /\ req[p].op = "pauseInferenceWorker"
        /\ notify[p] = "failed"
        /\ result[p] = "ok"
        /\ req[q].op = "deleteInferenceWorker"
        /\ notify[q] = "failed"
        /\ result[q] = "Internal"

\* C5: a pause or delete that has sent its shutdown notification eventually
\* issues its fleet call and returns, whether or not the worker ever answers
\* (the fleet answering every call).
C5_NotifyNeverBlocks ==
    \A p \in Procs :
        (pc[p] = "shutdown") ~>
            (pc[p] = "done" /\ Kinds(p) \cap {"pause", "remove"} # {})

\* C6: every request to a method other than setup that reaches its handler
\* has gone through the same wrappers in the same order: error normalization
\* outermost, then validation, authentication and the readiness gate.
C6_SameStagesEverywhere ==
    \A p \in Procs :
        (req[p].op \in Ops \ {"setup"} /\ InHandler(p)) =>
            stages[p] = <<"catchErrors", "validate", "auth", "enforceSetup",
                          "handler">>

\* C7: whatever failure a caller gets, of any method, is of a taxonomy kind.
C7_OnlyTaxonomyFailures ==
    \A p \in Procs :
        pc[p] = "done" => result[p] \in Taxonomy \cup {"ok"}

\* C8: a well-formed, authenticated request to a method other than setup
\* that is invoked while config.setupDone is false fails with
\* FailedPrecondition in the invoking step, without entering its handler,
\* issuing any call or changing the fleet; invoked while config.setupDone is
\* true, the same request enters its handler.
C8_GateBeforeHandler ==
    [][\A p \in Procs :
          (/\ pc[p] = "idle" /\ pc'[p] # "idle"
           /\ req'[p].op \in Ops \ {"setup"}
           /\ req'[p].valid /\ req'[p].authed) =>
              IF ~setupDone
              THEN /\ pc'[p] = "done"
                   /\ result'[p] = "FailedPrecondition"
                   /\ "handler" \notin RangeOf(stages'[p])
                   /\ calls'[p] = <<>>
                   /\ delivered'[p] = <<>>
                   /\ fleet' = fleet
              ELSE /\ "handler" \in RangeOf(stages'[p])
                   /\ pc'[p] # "done"]_vars

C8_Witness ==
    \E p, q \in Procs :
        /\ req[p].op = "pauseInferenceWorker"
        /\ req[p].valid /\ req[p].authed
        /\ result[p] = "FailedPrecondition"
        /\ ~InHandler(p)
        /\ req[q].op = "setup"
        /\ result[q] = "ok"
        /\ setupDone

ValidatedOps == Ops \ {"chatCompletion"}

\* C9: a request to a validated method that is malformed fails with
\* InvalidInput, and one that is well-formed but unauthenticated fails with
\* Unauthenticated; either way in the step that invokes it, without entering
\* the handler, issuing any call, or changing config.setupDone or the fleet.
C9_RejectedBeforeBusiness ==
    [][\A p \in Procs :
          (/\ pc[p] = "idle" /\ pc'[p] # "idle"
           /\ req'[p].op \in ValidatedOps
           /\ ~(req'[p].valid /\ req'[p].authed)) =>
              /\ pc'[p] = "done"
              /\ result'[p] = IF req'[p].valid THEN "Unauthenticated"
                              ELSE "InvalidInput"
              /\ "handler" \notin RangeOf(stages'[p])
              /\ calls'[p] = <<>>
              /\ setupDone' = setupDone
              /\ fleet' = fleet]_vars

C9_Witness ==
    \E p, q \in Procs :
        /\ req[p].op = "setup" /\ ~req[p].valid /\ req[p].keyFile = "good"
        /\ result[p] = "InvalidInput"
        /\ ~setupDone
        /\ req[q].op = "deleteInferenceWorker"
        /\ req[q].valid /\ ~req[q].authed
        /\ result[q] = "Unauthenticated"

\* C10: a well-formed, authenticated setup call invoked once
\* config.setupDone is true returns success in the invoking step, whatever
\* its keyFile, without calling setupController and leaving config.setupDone
\* true; invoked while it is false with a usable keyFile it calls
\* setupController, and when that returns the call succeeds with
\* config.setupDone true.
C10_BootstrapIdempotent ==
    [][\A p \in Procs :
          /\ (/\ pc[p] = "idle" /\ pc'[p] # "idle"
              /\ req'[p].op = "setup"
              /\ req'[p].valid /\ req'[p].authed) =>
                 IF setupDone
                 THEN /\ pc'[p] = "done"
                      /\ result'[p] = "ok"
                      /\ calls'[p] = <<>>
                      /\ setupDone'
                 ELSE req'[p].keyFile = "good" =>
                      /\ pc'[p] = "setupController"
                      /\ ~setupDone'
          /\ (/\ pc[p] = "setupController" /\ pc'[p] # "setupController"
              /\ req[p].keyFile = "good") =>
                 /\ pc'[p] = "done"
                 /\ result'[p] = "ok"
                 /\ setupDone']_vars

\* The first setup call, with a usable keyFile, has completed the setup; a
\* later one, with an unusable keyFile, has returned success at once.
C10_Witness ==
    \E p, q \in Procs :
        /\ req[p].op = "setup" /\ req[p].keyFile = "good"
        /\ Kinds(p) = {"setupController"} /\ result[p] = "ok"
        /\ req[q].op = "setup" /\ req[q].keyFile = "bad"
        /\ calls[q] = <<>> /\ result[q] = "ok"
        /\ setupDone

\* C11: a well-formed, authenticated setup call invoked while
\* config.setupDone is false and carrying no keyFile fails with
\* FailedPrecondition in the invoking step, thrown by the handler itself,
\* without calling setupController and leaving config.setupDone false; no
\* setup call, whatever it carries, ever enters the readiness gate.
C11_ProbeWithoutKey ==
    [][\A p \in Procs :
          (pc[p] = "idle" /\ pc'[p] # "idle" /\ req'[p].op = "setup") =>
              /\ "enforceSetup" \notin RangeOf(stages'[p])
              /\ (/\ req'[p].valid /\ req'[p].authed
                  /\ req'[p].keyFile = "none" /\ ~setupDone) =>
                     /\ pc'[p] = "done"
                     /\ result'[p] = "FailedPrecondition"
                     /\ "handler" \in RangeOf(stages'[p])
                     /\ calls'[p] = <<>>
                     /\ ~setupDone']_vars

C11_Witness ==
    \E p \in Procs :
        /\ req[p].op = "setup" /\ req[p].keyFile = "none"
        /\ req[p].valid /\ req[p].authed
        /\ InHandler(p)
        /\ result[p] = "FailedPrecondition"
        /\ calls[p] = <<>>
        /\ ~setupDone

\* C12: config.setupDone never goes from true back to false, whatever step
\* of whatever request is taken.
C12_SetupDoneMonotone == [][setupDone => setupDone']_vars

\* The setup has been completed by one request and another request has since
\* had the fleet carry out a lifecycle call.
C12_Witness ==
    \E p, q \in Procs :
        /\ req[p].op = "setup" /\ Kinds(p) = {"setupController"}
        /\ result[p] = "ok"
        /\ req[q].op \in LifecycleOps /\ fleetAns[q] = "ok"
        /\ setupDone

\* C13: of the setup calls that carry a keyFile and are in flight together
\* while config.setupDone is false, at most one is running setupController
\* at any time.
C13_SingleBootstrapWriter ==
    Cardinality({p \in Procs : /\ pc[p] = "setupController"
                               /\ req[p].keyFile # "none"}) <= 1

\* C14: a pause, resume or delete whose fleet call failed ends with Internal;
\* one whose fleet call succeeded ends with success and returns the name the
\* request asked for.
C14_FleetAnswerDecides ==
    \A p \in Procs :
        (req[p].op \in LifecycleOps /\ fleetAns[p] # "none") =>
            /\ pc[p] = "done"
            /\ IF fleetAns[p] = "fail"
               THEN result[p] = "Internal" /\ returned[p] = ""
               ELSE result[p] = "ok" /\ returned[p] = req[p].name

C14_Witness ==
    \E p, q \in Procs :
        /\ req[p].op = "resumeInferenceWorker"
        /\ fleetAns[p] = "fail" /\ result[p] = "Internal"
        /\ req[q].op = "deleteInferenceWorker" /\ req[q].name = "w2"
        /\ fleetAns[q] = "ok" /\ returned[q] = "w2"

\* The texts of a sequence of fragments or responses, in order.
Texts(seq) == [i \in 1..Len(seq) |-> seq[i].text]

IsPrefix(s, t) ==
    /\ Len(s) <= Len(t)
    /\ \A i \in 1..Len(s) : s[i] = t[i]

\* The request's stream was opened.
Streamed(p) == "stream" \in Kinds(p)

\* C15: at every point of a chatCompletion session the texts handed to the
\* caller are, in order, a prefix of the texts the worker's stream has
\* produced; once the stream has completed normally they are all of them.
C15_RelayPreservesOrder ==
    \A p \in Procs :
        req[p].op = "chatCompletion" =>
            /\ IsPrefix(Texts(delivered[p]), Texts(emitted[p]))
            /\ (pc[p] = "done" /\ result[p] = "ok" /\ Streamed(p)) =>
                   Texts(delivered[p]) = Texts(emitted[p])

C15_Witness ==
    \E p \in Procs :
        /\ req[p].op = "chatCompletion"
        /\ pc[p] = "done" /\ result[p] = "ok" /\ ~cancelled[p]
        /\ Texts(emitted[p]) = <<Fragment(1), Fragment(2)>>
        /\ Texts(delivered[p]) = <<Fragment(1), Fragment(2)>>

\* C16: when the worker's stream fails during a chatCompletion the caller
\* gets an Internal failure, the responses already yielded stay as they are,
\* and none is yielded afterwards.
C16_MidStreamFailureIsInternal ==
    [][\A p \in Procs :
          req[p].op = "chatCompletion" =>
              /\ (/\ pc[p] = "streaming" /\ pc'[p] = "done"
                  /\ result'[p] # "ok") =>
                     /\ result'[p] = "Internal"
                     /\ delivered'[p] = delivered[p]
              /\ (pc[p] = "done" /\ pc'[p] = "done") =>
                     delivered'[p] = delivered[p]]_vars

\* The request's stream is open: the handler is inside its for-await loop.
StreamOpen(p) == pc[p] \in {"streaming", "yield"}

\* C17: a chatCompletion session that has been cancelled has no open stream
\* and has not ended with a failure; after the cancellation its stream
\* produces nothing more and the caller is handed nothing more; and the
\* cancelling step leaves every other request, and its stream, as it was.
C17_CancelClosesUpstream ==
    [][\A p \in Procs :
          /\ cancelled[p] =>
                 /\ ~StreamOpen(p)
                 /\ result[p] \in {"none", "ok"}
                 /\ \/ pc'[p] = "idle"
                    \/ emitted'[p] = emitted[p] /\ delivered'[p] = delivered[p]
          /\ (cancelled'[p] /\ ~cancelled[p]) =>
                 \A q \in Procs \ {p} :
                     /\ pc'[q] = pc[q] /\ calls'[q] = calls[q]
                     /\ result'[q] = result[q]
                     /\ delivered'[q] = delivered[q]]_vars

\* C18: a pause or delete of a listed worker that has an address issues its
\* calls in the order list, shutdown notification to that worker, fleet call
\* on that worker; the fleet call is issued only once the notification has
\* settled.
C18_ListNotifyThenFleetCall ==
    \A p \in Procs :
        (req[p].op \in StopOps /\ ListedPresent(p) /\ listed[p].ip) =>
            LET n == req[p].name
                full == <<Call("list", ""), Call("shutdown", n),
                          Call(FleetCall(req[p].op), n)>>
            IN  /\ calls[p] \in {SubSeq(full, 1, 2), full}
                /\ calls[p] = full <=> notify[p] \in {"ok", "failed"}
                /\ calls[p] # full => pc[p] = "shutdown" /\ notify[p] = "none"

C18_Witness ==
    \E p \in Procs :
        /\ req[p].op = "deleteInferenceWorker" /\ req[p].name = "w2"
        /\ calls[p] = <<Call("list", ""), Call("shutdown", "w2"),
                        Call("remove", "w2")>>
        /\ notify[p] = "ok"
        /\ result[p] = "ok"

\* The fleet call of request p, if it has issued one.
FleetCallsOf(p) == CallsOf(p, "pause") \cup CallsOf(p, "start")
                       \cup CallsOf(p, "remove")

\* C19 as stated: whenever the fleet answers the call of a pause, resume or
\* delete, the worker the call names still exists in the fleet at that moment
\* and, for a resume, its authoritative status is TERMINATED.
C19_CallsOnlyOnCurrentState ==
    [][\A p \in Procs :
          (/\ req[p].op \in LifecycleOps
           /\ fleetAns[p] = "none" /\ fleetAns'[p] # "none") =>
              /\ fleet[req[p].name].exists
              /\ req[p].op = "resumeInferenceWorker" =>
                     fleet[req[p].name].status = "TERMINATED"]_vars

\* C19 as amended: every fleet call of a pause, resume or delete names the
\* requested worker and was issued after the listing fetched by the same
\* request held that worker and, for a resume, held it as TERMINATED.
C19_CallsOnlyOnListedState ==
    \A p \in Procs :
        (req[p].op \in LifecycleOps /\ FleetCallsOf(p) # {}) =>
            /\ ListedPresent(p)
            /\ listed[p].name = req[p].name
            /\ req[p].op = "resumeInferenceWorker" =>
                   listed[p].status = "TERMINATED"
            /\ \A i \in FleetCallsOf(p) :
                   calls[p][i] = Call(FleetCall(req[p].op), req[p].name)

\* A start call is in flight for a worker that was listed as TERMINATED and
\* that another request has meanwhile started.
C19_Witness ==
    \E p, q \in Procs :
        /\ p # q
        /\ req[p].op = "resumeInferenceWorker" /\ pc[p] = "fleetCall"
        /\ listed[p].status = "TERMINATED"
        /\ req[q].op = "resumeInferenceWorker" /\ req[q].name = req[p].name
        /\ fleetAns[q] = "ok"
        /\ fleet[req[p].name].status # "TERMINATED"

\* The positions of the calls of kind k in the call sequence cs.
KindAt(cs, k) == {i \in 1..Len(cs) : cs[i].kind = k}

\* C20: a pause, resume or delete for name n issues at most one pause, start
\* or remove call and at most one shutdown notification, each for n, and no
\* create call; no step of it changes config.setupDone or the fleet's record
\* of any other name.
C20_LifecycleFrame ==
    [][\A p \in Procs :
          req'[p].op \in LifecycleOps =>
              LET cs == calls'[p]
                  n == req'[p].name
                  mutating == KindAt(cs, "pause") \cup KindAt(cs, "start")
                                 \cup KindAt(cs, "remove")
              IN  /\ Cardinality(mutating) <= 1
                  /\ Cardinality(KindAt(cs, "shutdown")) <= 1
                  /\ KindAt(cs, "create") = {}
                  /\ \A i \in mutating \cup KindAt(cs, "shutdown") :
                         cs[i].target = n
                  /\ pc'[p] # pc[p] =>
                         /\ setupDone' = setupDone
                         /\ \A m \in Names \ {n} : fleet'[m] = fleet[m]]_vars

\* A delete of "w1" has sent its notification and removed the worker while
\* "w2" is still up.
C20_Witness ==
    \E p \in Procs :
        /\ req[p].op = "deleteInferenceWorker" /\ req[p].name = "w1"
        /\ Cardinality(CallsOf(p, "shutdown")) = 1
        /\ Cardinality(CallsOf(p, "remove")) = 1
        /\ result[p] = "ok"
        /\ fleet["w1"] = Absent
        /\ fleet["w2"] = Instance("RUNNING", TRUE)
        /\ setupDone
====
